---- MODULE Spec2Model ----
(***************************************************************************)
(* Model of rbxmppnotification/xmpp.py: the five notification entry points *)
(* of XmppClient, the audience resolver get_users_review_request and the   *)
(* dispatcher send_xmpp_message.                                           *)
(*                                                                         *)
(* One notification call is followed statement by statement.  The review   *)
(* request is a Django object whose relations are database queries that    *)
(* the code evaluates one after the other, so under Spec every relation is *)
(* drawn at the statement that reads it; under SpecResolver the whole      *)
(* request is held in review_request and the resolver is applied to it.    *)
(***************************************************************************)
EXTENDS Naturals, FiniteSets, Sequences

\* ---------------------------------------------------------------- bounds
\* NumUsers: the users the relations of a review request can name.
\* MaxGroups: the most groups target_groups.all() returns.
NumUsers == 2
MaxGroups == 2

Users == 1 .. NumUsers

\* The acting user is one of them, or one more user that no relation names.
Actors == 1 .. (NumUsers + 1)

\* ------------------------------------------------------- review requests
\* ReviewRequest.status values of Review Board; xmpp.py tests only 'D'.
Statuses == {"P", "S", "D"}

\* A review group: the code reads group.users only.
GroupObjects == {[users |-> m] : m \in SUBSET Users}

\* A subscriber profile: the code reads profile.user only.
Profiles == {[user |-> u] : u \in Users}

\* The "public"/"status" fields read by the gate of an entry point.
GateFields == [public : BOOLEAN, status : Statuses]

\* The collections target_groups.all() can return.
GroupCollections == {G \in SUBSET GroupObjects : Cardinality(G) <= MaxGroups}

\* Whole review requests, as the resolver sees them.
Requests ==
    [submitter : Users,
     participants : SUBSET Users,
     target_people : SUBSET Users,
     target_groups : GroupCollections,
     starred_by : SUBSET Profiles]

\* ---------------------------------------------------------------- settings
SettingKeys ==
    <<"xmpp_host", "xmpp_port", "xmpp_sender_jid", "xmpp_sender_password",
      "xmpp_use_tls">>

AllKeys == {SettingKeys[i] : i \in 1 .. Len(SettingKeys)}

\* The extension settings: the keys that are stored, and whether the stored
\* sender JID is a well-formed JID.
SettingsChoices ==
    {[keys |-> AllKeys, jid_ok |-> TRUE],
     [keys |-> AllKeys, jid_ok |-> FALSE],
     [keys |-> AllKeys \ {"xmpp_sender_password"}, jid_ok |-> TRUE]}

Kinds == {"publish", "reopen", "close", "review", "reply"}

VARIABLES
    active,          \* User.is_active of every user
    settings,        \* self.extension.settings
    pc,              \* position of the current notification call
    kind,            \* the entry point that was called
    user,            \* the acting user (argument "user")
    review_request,  \* the fields of the request the call has read
    message,         \* local "message" of the entry point
    resolved,        \* value returned by get_users_review_request
    users,           \* local "users": accumulator, then the audience
    groups_left,     \* target groups the resolver has not visited yet
    pending,         \* users the for loop has not visited yet
    calls,           \* calls[u]: send_xmpp_message invocations for u
    receiver,        \* argument "receiver" of the running invocation
    session,         \* state of the invocation's XMPP session
    sent,            \* messages handed to event.stream.send
    failed,          \* receivers whose invocation ended in logging.error
    raised,          \* exception propagated to the caller, or "none"
    event,           \* the last event given to the invocation's XmppHandler
    open_transports, \* receivers whose Client still holds an open transport
    previous_user    \* the acting user of the notification call before

vars ==
    <<active, settings, pc, kind, user, review_request, message, resolved,
      users, groups_left, pending, calls, receiver, session, sent, failed,
      raised, event, open_transports, previous_user>>

\* ------------------------------------------------------ message formatting
\* The format strings of the entry points as the % operator scans them:
\* "%s"/"%d" consume one argument, "%%" prints a percent sign, "text" is
\* literal text.
Template(k) ==
    CASE k = "publish" ->
           <<"%s", "%s", "text", "%d", "text", "%s", "text", "%s", "%s">>
      [] k = "reopen" ->
           <<"%s", "%s", "text", "%d", "text", "%s", "text", "%s", "%s">>
      [] k = "close" ->
           <<"%s", "%s", "text", "%d", "text", "%s", "text", "%s", "%s">>
      [] k = "review" ->
           <<"%s", "%s", "text", "%d", "text", "%s", "text", "%s", "%s">>
      [] k = "reply" ->
           <<"%s", "%s", "text", "%d", "text", "%s", "text", "%%", "text",
             "%s">>

\* The argument tuple every entry point passes to %.
FormatArgs ==
    <<"first_name", "last_name", "display_id", "summary", "base_url",
      "absolute_url">>

RECURSIVE Conversions(_)
\* Number of arguments a format string consumes.
Conversions(t) ==
    IF t = <<>> THEN 0
    ELSE (IF Head(t) \in {"%s", "%d"} THEN 1 ELSE 0) + Conversions(Tail(t))

\* template % args: a TypeError unless the tuple has exactly as many items as
\* the format string consumes.
Format(t, args) ==
    IF Len(args) = Conversions(t) THEN "ok" ELSE "TypeError"

NoMessage == [kind |-> "none", ascii |-> TRUE]

\* ------------------------------------------------------------ entry gates
\* The object an entry point receives: the request itself, a review of it, or
\* a reply to a review of it.
Argument(k, rq) ==
    CASE k = "review" -> [review_request |-> rq]
      [] k = "reply" -> [base_reply_to |-> [review_request |-> rq]]
      [] OTHER -> rq

\* The request an entry point works on.
RequestOf(k, arg) ==
    CASE k = "review" -> arg.review_request
      [] k = "reply" -> arg.base_reply_to.review_request
      [] OTHER -> arg

\* Mutants of the gate: the discarded test for every entry point, and the
\* public test for every entry point.
SuppressedWhenDiscarded(k, rq) == rq.status = "D"

SuppressedWhenNotPublic(k, rq) == ~rq.public

\* The early return of an entry point.
Suppressed(k, rq) ==
    IF k = "close" THEN rq.status = "D" ELSE ~rq.public

\* --------------------------------------------------------- audience resolver
\* for u in review_request.get_participants(): users.add(u)
AddParticipants(us, parts) == us \cup parts

\* if review_request.submitter.is_active: users.add(review_request.submitter)
AddSubmitter(us, s) == IF active[s] THEN us \cup {s} ELSE us

\* Mutant: target_people.all() in place of the is_active filter.
AddTargetPeopleUnfiltered(us, people) == us \cup people

\* for u in review_request.target_people.filter(is_active=True): users.add(u)
AddTargetPeople(us, people) == us \cup {u \in people : active[u]}

\* Mutant: the members of a target group are not added.
AddGroupUsersSkipped(us, g) == us

\* for address in group.users.filter(is_active=True): users.add(address)
AddGroupUsers(us, g) == us \cup {u \in g.users : active[u]}

\* for group in target_groups.all():
\*     for address in group.users.filter(is_active=True): users.add(address)
AddTargetGroups(us, groups) ==
    us \cup UNION {AddGroupUsers({}, g) : g \in groups}

\* for profile in starred_by.all():
\*     if profile.user.is_active: users.add(profile.user)
AddStarred(us, profiles) ==
    us \cup {p.user : p \in {q \in profiles : active[q.user]}}

get_users_review_request(rr) ==
    AddStarred(
        AddTargetGroups(
            AddTargetPeople(
                AddSubmitter(AddParticipants({}, rr.participants), rr.submitter),
                rr.target_people),
            rr.target_groups),
        rr.starred_by)

\* users.discard(user), without the actor removed: the audience as resolved.
DiscardNothing(us, u) == us

\* users.discard(user)
Discard(us, u) == us \ {u}

\* set.discard raises nothing, whether or not the element is in the set.
DiscardRaises(us, u) == FALSE

\* ---------------------------------------------------------------- settings
RECURSIVE FirstMissing(_, _)
\* The first of the settings lookups of send_xmpp_message that raises
\* KeyError, 0 when none does.
FirstMissing(st, i) ==
    IF i > Len(SettingKeys) THEN 0
    ELSE IF SettingKeys[i] \notin st.keys THEN i
    ELSE FirstMissing(st, i + 1)

\* unicode.decode("utf-8") under Python 2 first encodes with the ascii codec.
DecodeOk(msg) == msg.ascii

NoUser == NumUsers + 2

NoCalls == [u \in Actors |-> 0]

Finished == {"suppressed", "returned", "raised"}

\* ------------------------------------------------------------------- Init
Init ==
    /\ active \in [Users -> BOOLEAN]
    /\ settings \in SettingsChoices
    /\ pc = "idle"
    /\ kind = "none"
    /\ user = NoUser
    /\ review_request = [public |-> FALSE, status |-> "P"]
    /\ message = NoMessage
    /\ resolved = {}
    /\ users = {}
    /\ groups_left = 0
    /\ pending = {}
    /\ calls = NoCalls
    /\ receiver = NoUser
    /\ session = "none"
    /\ sent = {}
    /\ failed = {}
    /\ raised = "none"
    /\ event = "none"
    /\ open_transports = {}
    /\ previous_user = NoUser

\* ----------------------------------------------------------- entry points
\* send_review_request_published / _reopened / _closed, send_review_published
\* and send_reply_published, up to the call of get_users_review_request.
Enter(k, actor, gate, ascii) ==
    /\ pc = "idle"
    /\ kind' = k
    /\ user' = actor
    /\ review_request' = RequestOf(k, Argument(k, gate))
    /\ resolved' = {}
    /\ users' = {}
    /\ groups_left' = 0
    /\ pending' = {}
    /\ calls' = NoCalls
    /\ receiver' = NoUser
    /\ session' = "none"
    /\ sent' = {}
    /\ failed' = {}
    /\ event' = "none"
    /\ open_transports' = {}
    /\ IF Suppressed(k, review_request')
       THEN /\ pc' = "suppressed"
            /\ message' = NoMessage
            /\ raised' = "none"
       ELSE IF Format(Template(k), FormatArgs) = "TypeError"
       THEN /\ pc' = "raised"
            /\ message' = NoMessage
            /\ raised' = "TypeError"
       ELSE /\ pc' = "participants"
            /\ message' = [kind |-> k, ascii |-> ascii]
            /\ raised' = "none"
    /\ UNCHANGED <<active, settings, previous_user>>

frame_resolver ==
    UNCHANGED <<active, settings, kind, user, review_request, message,
                resolved, pending, calls, receiver, session, sent, failed,
                raised, event, open_transports, previous_user>>

frame_groups == groups_left' = groups_left

ReadParticipants(parts) ==
    /\ pc = "participants"
    /\ users' = AddParticipants(users, parts)
    /\ pc' = "submitter"
    /\ frame_groups
    /\ frame_resolver

ReadSubmitter(s) ==
    /\ pc = "submitter"
    /\ users' = AddSubmitter(users, s)
    /\ pc' = "target_people"
    /\ frame_groups
    /\ frame_resolver

ReadTargetPeople(people) ==
    /\ pc = "target_people"
    /\ users' = AddTargetPeople(users, people)
    /\ pc' = "target_groups"
    /\ frame_groups
    /\ frame_resolver

\* for group in review_request.target_groups.all(): the query returns n groups
ReadTargetGroups(n) ==
    /\ pc = "target_groups"
    /\ groups_left' = n
    /\ pc' = IF n = 0 THEN "starred_by" ELSE "group_users"
    /\ users' = users
    /\ frame_resolver

\* one pass of the loop over the target groups
ReadGroupUsers(g) ==
    /\ pc = "group_users"
    /\ users' = AddGroupUsers(users, g)
    /\ groups_left' = groups_left - 1
    /\ pc' = IF groups_left' = 0 THEN "starred_by" ELSE "group_users"
    /\ frame_resolver

ReadStarred(profiles) ==
    /\ pc = "starred_by"
    /\ users' = AddStarred(users, profiles)
    /\ pc' = "discard"
    /\ frame_groups
    /\ frame_resolver

\* users = get_users_review_request(review_request); users.discard(user)
DiscardActor ==
    /\ pc = "discard"
    /\ resolved' = users
    /\ IF DiscardRaises(users, user)
       THEN /\ pc' = "raised"
            /\ raised' = "KeyError"
            /\ UNCHANGED <<users, pending>>
       ELSE /\ users' = Discard(users, user)
            /\ pending' = users'
            /\ pc' = "fanout"
            /\ raised' = raised
    /\ UNCHANGED <<active, settings, kind, user, review_request, message,
                   groups_left, calls, receiver, session, sent, failed,
                   event, open_transports, previous_user>>

\* The call is over (return or exception): its frame is gone, and the caller
\* can make the next call.
Finish ==
    /\ pc \in Finished
    /\ pc' = "idle"
    /\ kind' = "none"
    /\ user' = NoUser
    /\ review_request' = [public |-> FALSE, status |-> "P"]
    /\ message' = NoMessage
    /\ resolved' = {}
    /\ users' = {}
    /\ groups_left' = 0
    /\ pending' = {}
    /\ calls' = NoCalls
    /\ receiver' = NoUser
    /\ session' = "none"
    /\ sent' = {}
    /\ failed' = {}
    /\ raised' = "none"
    /\ event' = "none"
    /\ open_transports' = {}
    /\ UNCHANGED <<active, settings, previous_user>>

\* for u in users: ... falls off the end of the entry point.
Return ==
    /\ pc = "fanout"
    /\ pending = {}
    /\ pc' = "returned"
    /\ UNCHANGED <<active, settings, kind, user, review_request, message,
                   resolved, users, groups_left, pending, calls, receiver,
                   session, sent, failed, raised, event, open_transports,
                   previous_user>>

\* ---------------------------------------------------------------- dispatcher
\* for u in users: self.send_xmpp_message(u, message), up to the try block:
\* the settings lookups and the decode calls.
SendBegin(u) ==
    /\ pc = "fanout"
    /\ u \in pending
    /\ pending' = pending \ {u}
    /\ calls' = [calls EXCEPT ![u] = @ + 1]
    /\ receiver' = u
    /\ session' = "none"
    /\ event' = "none"
    /\ IF FirstMissing(settings, 1) # 0
       THEN /\ pc' = "raised"
            /\ raised' = "KeyError"
       ELSE IF ~DecodeOk(message)
       THEN /\ pc' = "raised"
            /\ raised' = "UnicodeEncodeError"
       ELSE /\ pc' = "send"
            /\ raised' = "none"
    /\ UNCHANGED <<active, settings, kind, user, review_request, message,
                   resolved, users, groups_left, sent, failed,
                   open_transports, previous_user>>

frame_send ==
    UNCHANGED <<active, settings, kind, user, review_request, message,
                resolved, users, groups_left, pending, calls, receiver,
                raised, previous_user>>

\* Mutant: the exception is logged and raised again.
CaughtAndRaisedAgain ==
    /\ session' = "failed"
    /\ failed' = failed \cup {receiver}
    /\ pc' = "raised"
    /\ sent' = sent
    /\ event' = event
    /\ open_transports' \in {open_transports \ {receiver}, open_transports}

\* except Exception, e: logging.error(...).  Nothing on this path closes
\* the client: a transport that was opened is closed only if the library
\* closed it before raising.
Caught ==
    /\ session' = "failed"
    /\ failed' = failed \cup {receiver}
    /\ pc' = "fanout"
    /\ sent' = sent
    /\ event' = event
    /\ open_transports' \in {open_transports \ {receiver}, open_transports}

\* JID(xmpp_sender_jid); JID(receiver, xmpp_sender_jid.domain); Client(...)
ParseJids(receiver_ok) ==
    /\ pc = "send"
    /\ session = "none"
    /\ IF settings.jid_ok /\ receiver_ok
       THEN /\ session' = "connecting"
            /\ UNCHANGED <<pc, sent, failed, event, open_transports>>
       ELSE Caught
    /\ frame_send

\* client.connect()
Connect(ok) ==
    /\ pc = "send"
    /\ session = "connecting"
    /\ IF ok
       THEN /\ session' = "authenticating"
            /\ open_transports' = open_transports \cup {receiver}
            /\ UNCHANGED <<pc, sent, failed, event>>
       ELSE Caught
    /\ frame_send

\* client.run(): stream negotiation up to the AuthorizedEvent
Authenticate(ok) ==
    /\ pc = "send"
    /\ session = "authenticating"
    /\ IF ok
       THEN /\ session' = "authorized"
            /\ UNCHANGED <<pc, sent, failed, event, open_transports>>
       ELSE Caught
    /\ frame_send

\* Mutant: the catch-all handler ends the session.
handle_all_fails ==
    /\ pc = "send"
    /\ session \in {"authenticating", "sent"}
    /\ event' = "other"
    /\ session' = "failed"
    /\ failed' = failed \cup {receiver}
    /\ pc' = "fanout"
    /\ UNCHANGED <<sent, open_transports>>
    /\ frame_send

\* XmppHandler.handle_all: an event of any other class, while client.run()
\* dispatches events, is logged.
handle_all ==
    /\ pc = "send"
    /\ session \in {"authenticating", "sent"}
    /\ event' = "other"
    /\ UNCHANGED <<pc, session, sent, failed, open_transports>>
    /\ frame_send

\* Mutant: the handler sends and does not ask for the disconnection.
handle_authorized_stays ==
    /\ pc = "send"
    /\ session = "authorized"
    /\ event' = "authorized"
    /\ sent' = sent \cup {[to |-> receiver, body |-> message]}
    /\ session' = "authorized"
    /\ UNCHANGED <<pc, failed, open_transports>>
    /\ frame_send

\* XmppHandler.handle_authorized
handle_authorized ==
    /\ pc = "send"
    /\ session = "authorized"
    /\ event' = "authorized"
    /\ sent' = sent \cup {[to |-> receiver, body |-> message]}
    /\ session' = "sent"
    /\ UNCHANGED <<pc, failed, open_transports>>
    /\ frame_send

\* XmppHandler.handle_disconnected: QUIT ends client.run().  The event
\* tells that the transport is closed.
handle_disconnected ==
    /\ pc = "send"
    /\ session = "sent"
    /\ event' = "disconnected"
    /\ session' = "disconnected"
    /\ open_transports' = open_transports \ {receiver}
    /\ pc' = "fanout"
    /\ UNCHANGED <<sent, failed>>
    /\ frame_send

\* client.run() raises after the authorization: the transport fails while
\* the loop waits for the disconnection.
TransportFailure ==
    /\ pc = "send"
    /\ session = "sent"
    /\ Caught
    /\ frame_send

Next ==
    \/ \E k \in Kinds, actor \in Actors, gate \in GateFields, ascii \in BOOLEAN :
          Enter(k, actor, gate, ascii)
    \/ \E parts \in SUBSET Users : ReadParticipants(parts)
    \/ \E s \in Users : ReadSubmitter(s)
    \/ \E people \in SUBSET Users : ReadTargetPeople(people)
    \/ \E n \in 0 .. MaxGroups : ReadTargetGroups(n)
    \/ \E g \in GroupObjects : ReadGroupUsers(g)
    \/ \E profiles \in SUBSET Profiles : ReadStarred(profiles)
    \/ DiscardActor
    \/ \E u \in Users : SendBegin(u)
    \/ \E ok \in BOOLEAN : ParseJids(ok)
    \/ \E ok \in BOOLEAN : Connect(ok)
    \/ \E ok \in BOOLEAN : Authenticate(ok)
    \/ handle_all
    \/ handle_authorized
    \/ handle_disconnected
    \/ TransportFailure
    \/ Return
    \/ Finish

Spec == Init /\ [][Next]_vars

\* ---------------------------------------------------------------- progress
\* The steps the interpreter takes on its own: the statements of the entry
\* point and of send_xmpp_message, client.connect() and the handler of an
\* event that has arrived.  What client.run() waits for (the authorization,
\* the disconnection, any other event, a failure of the transport) comes
\* from the server, and run() is called without a timeout.
ProgramStep ==
    \/ \E parts \in SUBSET Users : ReadParticipants(parts)
    \/ \E s \in Users : ReadSubmitter(s)
    \/ \E people \in SUBSET Users : ReadTargetPeople(people)
    \/ \E n \in 0 .. MaxGroups : ReadTargetGroups(n)
    \/ \E g \in GroupObjects : ReadGroupUsers(g)
    \/ \E profiles \in SUBSET Profiles : ReadStarred(profiles)
    \/ DiscardActor
    \/ \E u \in Users : SendBegin(u)
    \/ \E ok \in BOOLEAN : ParseJids(ok)
    \/ \E ok \in BOOLEAN : Connect(ok)
    \/ handle_authorized
    \/ Return

SpecLive == Init /\ [][Next]_vars /\ WF_vars(ProgramStep)

\* ------------------------------------------------- the resolver on its own
\* get_users_review_request applied to a whole review request.
InitResolver ==
    /\ active \in [Users -> BOOLEAN]
    /\ settings \in {[keys |-> AllKeys, jid_ok |-> TRUE]}
    /\ pc = "idle"
    /\ kind = "none"
    /\ user = NoUser
    /\ review_request \in Requests
    /\ message = NoMessage
    /\ resolved = {}
    /\ users = {}
    /\ groups_left = 0
    /\ pending = {}
    /\ calls = NoCalls
    /\ receiver = NoUser
    /\ session = "none"
    /\ sent = {}
    /\ failed = {}
    /\ raised = "none"
    /\ event = "none"
    /\ open_transports = {}
    /\ previous_user = NoUser

ResolveRequest ==
    /\ pc = "idle"
    /\ resolved' = get_users_review_request(review_request)
    /\ users' = resolved'
    /\ pc' = "resolved"
    /\ UNCHANGED <<active, settings, kind, user, review_request, message,
                   groups_left, pending, calls, receiver, session, sent,
                   failed, raised, event, open_transports, previous_user>>

NextResolver == ResolveRequest

SpecResolver == InitResolver /\ [][NextResolver]_vars

\* ------------------------------------------ notification calls in sequence
\* Notification calls made one after the other on one review request, each
\* taken up to its fan-out: users = get_users_review_request(review_request);
\* users.discard(user).  The relations of the request are held in the state;
\* "user", "resolved" and "users" keep the values of the last call.
CallRequests == {rq \in Requests : Cardinality(rq.target_groups) <= 1}

InitCalls ==
    /\ active \in [Users -> BOOLEAN]
    /\ settings \in {[keys |-> AllKeys, jid_ok |-> TRUE]}
    /\ pc = "idle"
    /\ kind = "none"
    /\ user = NoUser
    /\ review_request \in CallRequests
    /\ message = NoMessage
    /\ resolved = {}
    /\ users = {}
    /\ groups_left = 0
    /\ pending = {}
    /\ calls = NoCalls
    /\ receiver = NoUser
    /\ session = "none"
    /\ sent = {}
    /\ failed = {}
    /\ raised = "none"
    /\ event = "none"
    /\ open_transports = {}
    /\ previous_user = NoUser

frame_calls ==
    UNCHANGED <<active, settings, pc, kind, review_request, message,
                groups_left, calls, receiver, session, sent, failed, raised,
                event, open_transports>>

\* Mutant: the set of the call before is kept and used again.
NotifyCallCached(actor) ==
    /\ pc = "idle"
    /\ previous_user' = user
    /\ user' = actor
    /\ resolved' = (IF user = NoUser
                    THEN get_users_review_request(review_request)
                    ELSE users)
    /\ users' = Discard(resolved', actor)
    /\ pending' = users'
    /\ frame_calls

NotifyCall(actor) ==
    /\ pc = "idle"
    /\ previous_user' = user
    /\ user' = actor
    /\ resolved' = get_users_review_request(review_request)
    /\ users' = Discard(resolved', actor)
    /\ pending' = users'
    /\ frame_calls

NextCalls == \E actor \in Actors : NotifyCall(actor)

SpecCalls == InitCalls /\ [][NextCalls]_vars

\* ------------------------------------------- the resolver's iteration order
\* The loops of get_users_review_request visit the rows of each relation in
\* the order the collaborator returns them.  Under SpecOrder every relation
\* is resolved twice: into "resolved" in ascending order of the ids, and
\* into "users" in an order drawn with the relation.

\* The rankings of n positions.
Keys(n) ==
    {k \in [1 .. n -> 1 .. n] : \A i, j \in 1 .. n : i # j => k[i] # k[j]}

Ascending == [u \in Users |-> u]

\* The users of S as the rows of a query, ordered by key.
UsersInOrder(S, key) ==
    [p \in 1 .. Cardinality(S) |->
        CHOOSE u \in S : Cardinality({v \in S : key[v] <= key[u]}) = p]

RECURSIVE Enumerate(_)
\* The objects of S as the rows of a query.
Enumerate(S) ==
    IF S = {} THEN <<>>
    ELSE LET x == CHOOSE y \in S : TRUE
         IN <<x>> \o Enumerate(S \ {x})

\* rows in another order: the row of the p-th smallest key comes p-th.
Reorder(rows, key) ==
    [p \in 1 .. Len(rows) |->
        rows[CHOOSE i \in 1 .. Len(rows) :
                Cardinality({j \in 1 .. Len(rows) : key[j] <= key[i]}) = p]]

\* Mutant: users = set([u]) in place of users.add(u).
users_assign(us, u) == {u}

\* users.add(u)
users_add(us, u) == us \cup {u}

RECURSIVE AddEach(_, _)
\* for u in rows: users.add(u)
AddEach(us, rows) ==
    IF rows = <<>> THEN us
    ELSE AddEach(users_add(us, Head(rows)), Tail(rows))

\* rows.filter(is_active=True)
ActiveRows(rows) ==
    LET is_active(u) == active[u] IN SelectSeq(rows, is_active)

RECURSIVE AddEachGroup(_, _, _)
\* for group in groups: for address in group.users.filter(is_active=True):
\*     users.add(address)
AddEachGroup(us, groups, key) ==
    IF groups = <<>> THEN us
    ELSE AddEachGroup(
             AddEach(us, ActiveRows(UsersInOrder(Head(groups).users, key))),
             Tail(groups), key)

RECURSIVE AddEachProfile(_, _)
\* for profile in profiles: if profile.user.is_active: users.add(profile.user)
AddEachProfile(us, profiles) ==
    IF profiles = <<>> THEN us
    ELSE AddEachProfile(
             IF active[Head(profiles).user]
             THEN users_add(us, Head(profiles).user) ELSE us,
             Tail(profiles))

\* The profiles of S as the rows of a query, ordered by the key of the user.
ProfilesInOrder(S, key) ==
    LET us == UsersInOrder({p.user : p \in S}, key)
    IN [i \in 1 .. Len(us) |-> [user |-> us[i]]]

\* What SpecOrder keeps of the relations read: how many were read, and how
\* many of them the second resolution visited in another order.
NothingRead == [relations |-> 0, reordered |-> 0]

Read(rows, rows_again) ==
    [relations |-> review_request.relations + 1,
     reordered |-> review_request.reordered + (IF rows = rows_again THEN 0 ELSE 1)]

InitOrder ==
    /\ active \in [Users -> BOOLEAN]
    /\ settings \in {[keys |-> AllKeys, jid_ok |-> TRUE]}
    /\ pc = "order_participants"
    /\ kind = "none"
    /\ user = NoUser
    /\ review_request = NothingRead
    /\ message = NoMessage
    /\ resolved = {}
    /\ users = {}
    /\ groups_left = 0
    /\ pending = {}
    /\ calls = NoCalls
    /\ receiver = NoUser
    /\ session = "none"
    /\ sent = {}
    /\ failed = {}
    /\ raised = "none"
    /\ event = "none"
    /\ open_transports = {}
    /\ previous_user = NoUser

frame_order ==
    UNCHANGED <<active, settings, kind, user, message, groups_left, pending,
                calls, receiver, session, sent, failed, raised, event,
                open_transports, previous_user>>

OrderParticipants(parts, key) ==
    /\ pc = "order_participants"
    /\ LET rows == UsersInOrder(parts, Ascending)
           rows_again == UsersInOrder(parts, key)
       IN /\ resolved' = AddEach(resolved, rows)
          /\ users' = AddEach(users, rows_again)
          /\ review_request' = Read(rows, rows_again)
    /\ pc' = "order_submitter"
    /\ frame_order

OrderSubmitter(s) ==
    /\ pc = "order_submitter"
    /\ resolved' = (IF active[s] THEN users_add(resolved, s) ELSE resolved)
    /\ users' = (IF active[s] THEN users_add(users, s) ELSE users)
    /\ review_request' = Read(<<s>>, <<s>>)
    /\ pc' = "order_target_people"
    /\ frame_order

OrderTargetPeople(people, key) ==
    /\ pc = "order_target_people"
    /\ LET rows == UsersInOrder(people, Ascending)
           rows_again == UsersInOrder(people, key)
       IN /\ resolved' = AddEach(resolved, ActiveRows(rows))
          /\ users' = AddEach(users, ActiveRows(rows_again))
          /\ review_request' = Read(rows, rows_again)
    /\ pc' = "order_target_groups"
    /\ frame_order

OrderTargetGroups(groups, group_key, key) ==
    /\ pc = "order_target_groups"
    /\ LET rows == Enumerate(groups)
           rows_again == Reorder(rows, group_key)
       IN /\ resolved' = AddEachGroup(resolved, rows, Ascending)
          /\ users' = AddEachGroup(users, rows_again, key)
          /\ review_request' =
                Read(<<rows, Ascending>>, <<rows_again, key>>)
    /\ pc' = "order_starred_by"
    /\ frame_order

OrderStarred(profiles, key) ==
    /\ pc = "order_starred_by"
    /\ LET rows == ProfilesInOrder(profiles, Ascending)
           rows_again == ProfilesInOrder(profiles, key)
       IN /\ resolved' = AddEachProfile(resolved, rows)
          /\ users' = AddEachProfile(users, rows_again)
          /\ review_request' = Read(rows, rows_again)
    /\ pc' = "order_done"
    /\ frame_order

NextOrder ==
    \/ \E parts \in SUBSET Users, key \in Keys(NumUsers) :
          OrderParticipants(parts, key)
    \/ \E s \in Users : OrderSubmitter(s)
    \/ \E people \in SUBSET Users, key \in Keys(NumUsers) :
          OrderTargetPeople(people, key)
    \/ \E groups \in GroupCollections, group_key \in Keys(MaxGroups),
          key \in Keys(NumUsers) :
          OrderTargetGroups(groups, group_key, key)
    \/ \E profiles \in SUBSET Profiles, key \in Keys(NumUsers) :
          OrderStarred(profiles, key)

SpecOrder == InitOrder /\ [][NextOrder]_vars

\* ==================================================================== claims
Dispatched == {u \in Actors : calls[u] > 0}

NothingDispatched ==
    /\ calls = NoCalls
    /\ sent = {}
    /\ session = "none"
    /\ receiver = NoUser

\* C1: publish, reopen, review_posted and reply_posted on a request that is
\* not public end at the gate: the dispatcher is never invoked, no session is
\* opened and no message is sent, and no relation of the request is read.
C1_NonPublicDispatchesNothing ==
    (kind \in {"publish", "reopen", "review", "reply"} /\ ~review_request.public)
        => (pc = "suppressed" /\ NothingDispatched /\ resolved = {} /\ users = {})

C1_Witness ==
    /\ kind = "reply"
    /\ ~review_request.public
    /\ review_request.status = "P"
    /\ pc = "suppressed"

C3_ActorNeverRecipient ==
    /\ user # NoUser => calls[user] = 0
    /\ receiver # user \/ receiver = NoUser
    /\ \A m \in sent : m.to # user
    /\ (pc \in {"fanout", "send", "returned"} /\ user \notin resolved)
          => users = resolved
    /\ raised = "KeyError" => receiver # NoUser

C3_Witness ==
    /\ pc = "returned"
    /\ user \in resolved
    /\ active[user]
    /\ Cardinality(resolved) = NumUsers
    /\ {m.to : m \in sent} = resolved \ {user}

\* C4: every user in the set get_users_review_request returns is active,
\* participants included.
C4_ResolvedUsersAreActive ==
    pc = "resolved" => \A u \in resolved : active[u]

\* C5: an inactive user who is not a participant is not in the resolved
\* audience, whether submitter, target person, member of a target group or
\* subscriber.
C5_InactiveOnlyAsParticipant ==
    pc = "resolved" =>
        \A u \in resolved : ~active[u] => u \in review_request.participants

C5_Witness ==
    /\ pc = "resolved"
    /\ \E u \in Users :
          /\ ~active[u]
          /\ u \notin review_request.participants
          /\ u = review_request.submitter
          /\ u \in review_request.target_people
          /\ \E g \in review_request.target_groups : u \in g.users
          /\ [user |-> u] \in review_request.starred_by
          /\ u \notin resolved
          /\ resolved # {}

\* C6: when a dispatcher invocation of a notification call has failed inside
\* the try block (bad address, transport, authentication, TLS), the call
\* does not end there: when it ends, the dispatcher has been invoked for
\* every user of the audience.
C6_FailureIsolation ==
    failed # {} =>
        /\ pc # "raised"
        /\ pc = "returned" => \A u \in resolved \ {user} : calls[u] >= 1

C6_Witness ==
    /\ pc = "returned"
    /\ failed # {}
    /\ \E m \in sent : m.to \notin failed
    /\ Dispatched = Users

\* C7: no entry point propagates an exception to its caller.
C7_NeverRaises == pc # "raised"

\* C8: a call that passes its gate invokes the dispatcher exactly once for
\* every user of the resolved audience other than the actor, and for nobody
\* else.
C8_ExactlyOncePerRecipient ==
    pc \in {"returned", "raised"}
        => \A u \in Actors :
              calls[u] = IF u \in resolved \ {user} THEN 1 ELSE 0

\* C9: reply_posted on a public request resolves the audience and invokes
\* the dispatcher for every user of it other than the actor, as review_posted
\* does.
C9_ReplyDispatchesLikeReview ==
    (/\ kind = "reply"
     /\ review_request.public
     /\ pc \in Finished
     /\ raised \notin {"KeyError", "UnicodeEncodeError"})
        => /\ pc = "returned"
           /\ Dispatched = resolved \ {user}

\* The same statement about review_posted, which the code satisfies.
ReviewDispatches ==
    (/\ kind = "review"
     /\ review_request.public
     /\ pc \in Finished
     /\ raised \notin {"KeyError", "UnicodeEncodeError"})
        => /\ pc = "returned"
           /\ Dispatched = resolved \ {user}

C18_DiscardedDispatchesNothing ==
    (kind \in {"publish", "reopen"} /\ review_request.status = "D")
        => (pc = "suppressed" /\ NothingDispatched)

\* C11: resolving a request a second time, with the rows of the participants,
\* the target people, the target groups, the members of each group and the
\* subscribers visited in any other order, yields the same set as the first
\* resolution, after every relation.
C11_ResolutionIsOrderIndependent == users = resolved

C11_Witness ==
    /\ pc = "order_done"
    /\ review_request.reordered >= 3
    /\ Cardinality(users) = NumUsers

\* The order in which a session visits its states on the way to the
\* disconnection.
SessionOrder ==
    {<<"none", "connecting">>, <<"connecting", "authenticating">>,
     <<"authenticating", "authorized">>, <<"authorized", "sent">>,
     <<"sent", "disconnected">>}

\* C12: within one dispatcher invocation a message is sent only by the step
\* that answers the authorized event; that step sends exactly one message,
\* addressed to the invocation's receiver with the invocation's body, and
\* asks for the disconnection in the same handler; nothing is sent once the
\* disconnection is asked for; the session advances only in the order
\* connecting, authenticating, authorized, sent, disconnected.
C12_SendOnlyOnAuthorization ==
    [][/\ (sent' \ sent # {}) =>
            /\ session = "authorized"
            /\ event' = "authorized"
            /\ session' = "sent"
            /\ [to |-> receiver, body |-> message] \notin sent
            /\ sent' = sent \cup {[to |-> receiver, body |-> message]}
       /\ (session = "authorized" /\ session' # session) =>
            /\ session' = "sent"
            /\ [to |-> receiver, body |-> message] \in sent'
       /\ (session \in {"sent", "disconnected"} /\ session' # "none") =>
            sent' = sent
       /\ (session' # session /\ session' \notin {"none", "failed"}) =>
            <<session, session'>> \in SessionOrder]_vars

C12_Witness ==
    /\ session = "disconnected"
    /\ event = "disconnected"
    /\ sent = {[to |-> receiver, body |-> message]}

\* C13 as stated: once an event that is neither the authorized nor the
\* disconnected event was given to the handler, the session is failed.
C13_UnhandledEventFails == event = "other" => session = "failed"

\* C13: an exception raised inside the try block (a transport failure among
\* them) moves the session to failed and sends nothing; a failed session makes
\* no further transition and sends nothing, and the next session is for
\* another receiver (no retry); an event that is neither the authorized nor
\* the disconnected event is logged and leaves the session, the messages
\* sent and the position of the invocation as they were.
C13_FailureIsTerminal ==
    [][/\ (failed' \ failed # {}) =>
            /\ failed' = failed \cup {receiver}
            /\ session' = "failed"
            /\ sent' = sent
       /\ (session = "failed" /\ session' # "failed") =>
            /\ session' = "none"
            /\ receiver' # receiver
       /\ (session = "failed" /\ session' = "failed") => sent' = sent
       /\ (event' = "other" /\ event # "other") =>
            /\ session' = session
            /\ sent' = sent
            /\ pc' = pc]_vars

C13_Witness ==
    /\ session = "failed"
    /\ event = "other"
    /\ [to |-> receiver, body |-> message] \in sent
    /\ pending # {}

\* C14: whenever no dispatcher invocation is running, every transport that
\* an invocation opened is closed.
C14_SessionsTornDown == pc # "send" => open_transports = {}

\* C15: during the fan-out at most one transport is open at any moment.
C15_AtMostOneSessionOpen == Cardinality(open_transports) <= 1

\* C16: every dispatcher invocation that has entered its try block
\* eventually leaves it, by the disconnection or by a failure.
C16_InvocationTerminates == (pc = "send") ~> (pc # "send")

\* C17: a notification call leaves the participants, the submitter, the
\* target people, the target groups and the subscribers of the request (and
\* the users' is_active) as they were; its audience is the resolution of the
\* request as it is, less the actor of this call; the actor of the call
\* before, when that user qualifies and another user acts, is in the
\* audience.
C17_AudienceBuiltFresh ==
    [][/\ review_request' = review_request
       /\ active' = active
       /\ users' = get_users_review_request(review_request') \ {user'}
       /\ (/\ user # NoUser
           /\ user' # user
           /\ user \in get_users_review_request(review_request)) =>
            user \in users']_vars

C17_Witness ==
    /\ previous_user # user
    /\ previous_user \in users
    /\ user \in resolved
    /\ user \notin users
====
